---- MODULE Spec2Model ----
(***************************************************************************)
(* Model of the Conan recipe FossilSysConan (conanfile.py): the recipe's   *)
(* class attributes, its lifecycle hooks (layout, generate, source, build, *)
(* package, package_info) and the files and commands those hooks produce.  *)
(* The host that calls the hooks is modelled as a driver that calls them   *)
(* in the documented order and stops at the first hook that raises; a      *)
(* second specification lets the host re-enter build() and package().      *)
(***************************************************************************)
EXTENDS Integers, Sequences, FiniteSets, TLC

(* ---------------------------------------------------------------- bounds *)
\* Number of times the host may run the recipe against the same folders.
MaxInvocations == 2

\* Number of commands of one invocation beyond which the host re-enters no hook.
MaxCmds == 6

(* ------------------------------------------------- recipe class attributes *)
name == "fossil_sys"
version == "0.1.3"
url == "https://github.com/fossillogic/fossil-sys"
default_options == [shared |-> FALSE]

\* settings = "os", "compiler", "build_type", "arch": the values the host may bind.
SettingsSpace ==
  [os : {"Linux", "Windows"}, compiler : {"gcc"},
   build_type : {"Debug", "Release"}, arch : {"x86_64"}]

\* options = {"shared": [True, False]}
OptionsSpace == [shared : {TRUE, FALSE}]

(* ------------------------------------------------------------------ files *)
\* A file is [dir, stem, ext]: the directory as a sequence of components and
\* the file name split at its last dot.
File(dir, stem, ext) == [dir |-> dir, stem |-> stem, ext |-> ext]

IsPrefix(p, s) == Len(p) <= Len(s) /\ SubSeq(s, 1, Len(p)) = p

\* The part of s after its first n components.
Drop(s, n) == SubSeq(s, n + 1, Len(s))

\* The files of tree t that lie in directory dir or below it.
Under(t, dir) == {f \in t : IsPrefix(dir, f.dir)}

\* Tree t placed under directory dir.
Rebase(t, dir) == {File(dir \o f.dir, f.stem, f.ext) : f \in t}

\* The header directory named by package(): "code/logic/fossil/sys".
HeaderSrc == <<"code", "logic", "fossil", "sys">>

\* The content of the repository at the tag: the build description, the
\* headers under HeaderSrc, a C source and a file outside exports_sources.
RepoTree ==
  { File(<<>>, "meson", "build"),
    File(<<>>, "README", "md"),
    File(HeaderSrc, "framework", "h"),
    File(<<"code", "logic">>, "memory", "c") }

\* exports_sources = "code/**", "meson.build", "meson.options"
ExportsSources(t) ==
  { f \in t : \/ IsPrefix(<<"code">>, f.dir)
              \/ f.dir = <<>> /\ f.stem = "meson" /\ f.ext \in {"build", "options"} }

\* os.path resolution of a folder name relative to the recipe's base folder.
FolderPath(folder) == IF folder = "." THEN <<>> ELSE <<folder>>

(* ------------------------------------------------------------------ state *)
VARIABLES
  settings,    \* self.settings, bound by the host at construction
  options,     \* self.options
  folders,     \* self.folders: [source, build], "unset" before layout()
  cpp_info,    \* self.cpp_info: [libs, includedirs]
  toolchain,   \* the generated toolchain files: a set of [name, content]
  fs,          \* files under the recipe's base folder
  pkg,         \* files under self.package_folder
  cmds,        \* external commands run in this invocation, with their result
  state,       \* lifecycle state of the recipe in this invocation
  failed,      \* the hook that raised in this invocation, or "none"
  inv,         \* number of the current invocation
  pkgCwd       \* the folder the host makes the working directory of package()

vars == <<settings, options, folders, cpp_info, toolchain, fs, pkg, cmds,
          state, failed, inv, pkgCwd>>

States ==
  <<"Created", "LayoutResolved", "ToolchainGenerated", "SourceReady",
    "Built", "Packaged", "Described">>

Index(s) == CHOOSE i \in 1..Len(States) : States[i] = s

NoFolders == [source |-> "unset", build |-> "unset"]
NoCppInfo == [libs |-> <<>>, includedirs |-> <<>>]

Cmd(stage, argv, ok) == [stage |-> stage, argv |-> argv, ok |-> ok]

\* The recipe object after construction: default options, no layout, and a
\* base folder that is empty or holds the exported sources (local sources).
Init ==
  /\ settings \in SettingsSpace
  /\ options = default_options
  /\ folders = NoFolders
  /\ cpp_info = NoCppInfo
  /\ toolchain = {}
  /\ fs \in {{}, ExportsSources(RepoTree)}
  /\ pkg = {}
  /\ cmds = <<>>
  /\ state = "Created"
  /\ failed = "none"
  /\ inv = 1
  /\ pkgCwd \in {"source", "build"}

\* Variant of Ready: the host calls a hook without checking that the recipe
\* is in the state the hook starts from.
Ready_anyLater(s) == failed = "none" /\ Index(state) >= Index(s)

\* A hook is called only while no earlier hook of the invocation has raised.
Ready(s) == state = s /\ failed = "none"

\* The host binds option values (-o shared=...) before any hook runs.
HostSetOption ==
  /\ Ready("Created")
  /\ \E o \in OptionsSpace : options' = o /\ o # options
  /\ UNCHANGED <<settings, folders, cpp_info, toolchain, fs, pkg, cmds,
                 state, failed, inv, pkgCwd>>

(* ------------------------------------------------------------------ hooks *)
\* Variant of layout: the build folder is named "build".
layout_buildNamedBuild ==
  [source |-> ".", build |-> "build"]

\* Variant of layout: the build folder is left unset.
layout_noBuildFolder ==
  [source |-> ".", build |-> "unset"]

\* def layout(self)
layout ==
  [source |-> ".", build |-> "builddir"]

Layout ==
  /\ Ready("Created")
  /\ folders' = layout
  /\ state' = "LayoutResolved"
  /\ UNCHANGED <<settings, options, cpp_info, toolchain, fs, pkg, cmds,
                 failed, inv, pkgCwd>>

\* Variant of MesonToolchain: the link mode does not follow the shared option.
MesonToolchain_staticOnly(s, o) ==
  [os |-> s.os, compiler |-> s.compiler, arch |-> s.arch,
   buildtype |-> IF s.build_type = "Debug" THEN "debug" ELSE "release",
   default_library |-> "static"]

\* Variant of MesonToolchain: a shared build also forces the release build type.
MesonToolchain_sharedRelease(s, o) ==
  [os |-> s.os, compiler |-> s.compiler, arch |-> s.arch,
   buildtype |-> IF s.build_type = "Debug" /\ ~o.shared THEN "debug" ELSE "release",
   default_library |-> IF o.shared THEN "shared" ELSE "static"]

\* MesonToolchain(self): the toolchain content derived from settings and options.
MesonToolchain(s, o) ==
  [os |-> s.os, compiler |-> s.compiler, arch |-> s.arch,
   buildtype |-> IF s.build_type = "Debug" THEN "debug" ELSE "release",
   default_library |-> IF o.shared THEN "shared" ELSE "static"]

\* The file MesonToolchain.generate() writes.
NativeFile == "conan_meson_native.ini"

\* Variant of WriteToolchain: an earlier file is kept next to the new one.
WriteToolchain_keepOld(tcs, content) ==
  tcs \cup {[name |-> NativeFile, content |-> content]}

\* tc.generate(): writes the file, replacing a file of the same name.
WriteToolchain(tcs, content) ==
  {f \in tcs : f.name # NativeFile} \cup {[name |-> NativeFile, content |-> content]}

\* The content of the toolchain file the build tool reads.
ToolchainContent(tcs) == (CHOOSE f \in tcs : f.name = NativeFile).content

\* def generate(self): tc = MesonToolchain(self); tc.generate()
Generate ==
  /\ Ready("LayoutResolved")
  /\ \E ok \in BOOLEAN :
       IF ok
       THEN /\ toolchain' = WriteToolchain(toolchain, MesonToolchain(settings, options))
            /\ state' = "ToolchainGenerated"
            /\ failed' = "none"
       ELSE /\ failed' = "generate"
            /\ UNCHANGED <<toolchain, state>>
  /\ UNCHANGED <<settings, options, folders, cpp_info, fs, pkg, cmds, inv, pkgCwd>>

\* The directory "git clone <url>" creates in its working directory: the last
\* component of url.
RepoDir == "fossil-sys"

\* What an interrupted clone may leave behind in its directory.
PartialTree == {File(<<>>, "README", "md")}

FetchOutcomes == {"ok", "fail", "partial"}

\* First definition of source() in the class body: shallow clone of the tag.
source_first ==
  <<"git", "clone", "--branch", "v" \o version, "--depth", "1", url>>

\* Variant of source_second: the ref is the bare version, without the "v".
source_second_bareVersion ==
  <<"git", "clone", "--branch", version, url>>

\* Second definition of source() in the class body: full clone of the tag.
source_second ==
  <<"git", "clone", "--branch", "v" \o version, url>>

\* The class attribute "source" after the class body has run: the later
\* definition rebinds the name.
source == source_second

\* git clone run in directory cwd of tree t: it refuses a destination that
\* exists and is not empty; otherwise the remote decides the outcome.
GitCloneOk(t, cwd, outcome) ==
  Under(t, cwd \o <<RepoDir>>) = {} /\ outcome = "ok"

GitClone(t, cwd, outcome) ==
  LET dest == cwd \o <<RepoDir>> IN
  IF Under(t, dest) # {} THEN t
  ELSE CASE outcome = "ok" -> t \cup Rebase(RepoTree, dest)
         [] outcome = "partial" -> t \cup Rebase(PartialTree, dest)
         [] OTHER -> t

\* Variant of RunRaises: the exit status is ignored (ignore_errors=True).
RunRaises_ignoreErrors(ok) == FALSE

\* self.run(cmd) raises when the command exits with an error.
RunRaises(ok) == ~ok

\* def source(self): self.run(f"git clone ...") in the source folder.
Source ==
  /\ Ready("ToolchainGenerated")
  /\ \E outcome \in FetchOutcomes :
       LET cwd == FolderPath(folders.source)
           ok == GitCloneOk(fs, cwd, outcome)
       IN /\ fs' = GitClone(fs, cwd, outcome)
          /\ cmds' = Append(cmds, Cmd("source", source, ok))
          /\ IF RunRaises(ok)
             THEN failed' = "source" /\ state' = state
             ELSE failed' = "none" /\ state' = "SourceReady"
  /\ UNCHANGED <<settings, options, folders, cpp_info, toolchain, pkg, inv, pkgCwd>>

\* Meson(self).configure(): meson setup of the build folder from the source
\* folder with the generated toolchain; it needs the build description at
\* the root of the source folder.
ConfigureOk(t, src, tcs, toolOk) ==
  /\ File(src, "meson", "build") \in t
  /\ \E f \in tcs : f.name = NativeFile
  /\ toolOk

Configure(t, bld) == t \cup {File(bld, "build", "ninja")}

\* Meson(self).build(): compiles the library in the link mode of the toolchain.
LibFile(dir, tc) ==
  File(dir, "lib" \o name, IF tc.default_library = "shared" THEN "so" ELSE "a")

Compile(t, bld, tc) == t \cup {LibFile(bld, tc)}

\* Variant of build: a failure of configure is swallowed and build still runs.
build_swallowConfigure ==
  /\ \E cfgTool \in BOOLEAN, bldOk \in BOOLEAN :
       LET src == FolderPath(folders.source)
           bld == FolderPath(folders.build)
           cfgOk == ConfigureOk(fs, src, toolchain, cfgTool)
           ok == cfgOk /\ bldOk
       IN /\ cmds' = cmds \o <<Cmd("build", <<"meson", "setup">>, cfgOk),
                                 Cmd("build", <<"meson", "compile">>, ok)>>
          /\ fs' = IF ok THEN Compile(Configure(fs, bld), bld, ToolchainContent(toolchain))
                    ELSE IF cfgOk THEN Configure(fs, bld) ELSE fs
          /\ IF ok THEN failed' = "none" /\ state' = "Built"
                   ELSE failed' = "build" /\ state' = state
  /\ UNCHANGED <<settings, options, folders, cpp_info, toolchain, pkg, inv, pkgCwd>>

\* Variant of build: configure is skipped when the build folder already holds
\* a configuration.
build_skipConfigured ==
  /\ \E cfgTool \in BOOLEAN, bldOk \in BOOLEAN :
       LET src == FolderPath(folders.source)
           bld == FolderPath(folders.build)
           had == File(bld, "build", "ninja") \in fs
           cfgOk == had \/ ConfigureOk(fs, src, toolchain, cfgTool)
           setup == IF had THEN <<>>
                    ELSE <<Cmd("build", <<"meson", "setup">>, cfgOk)>>
       IN IF ~cfgOk
          THEN /\ cmds' = cmds \o setup
               /\ failed' = "build"
               /\ UNCHANGED <<fs, state>>
          ELSE /\ cmds' = cmds \o setup \o <<Cmd("build", <<"meson", "compile">>, bldOk)>>
               /\ fs' = IF bldOk
                        THEN Compile(Configure(fs, bld), bld, ToolchainContent(toolchain))
                        ELSE Configure(fs, bld)
               /\ IF bldOk THEN failed' = "none" /\ state' = "Built"
                           ELSE failed' = "build" /\ state' = state
  /\ UNCHANGED <<settings, options, folders, cpp_info, toolchain, pkg, inv, pkgCwd>>

\* def build(self): meson.configure(); meson.build()
build ==
  /\ \E cfgTool \in BOOLEAN, bldOk \in BOOLEAN :
       LET src == FolderPath(folders.source)
           bld == FolderPath(folders.build)
           cfgOk == ConfigureOk(fs, src, toolchain, cfgTool)
       IN IF ~cfgOk
          THEN /\ cmds' = Append(cmds, Cmd("build", <<"meson", "setup">>, FALSE))
               /\ failed' = "build"
               /\ UNCHANGED <<fs, state>>
          ELSE IF ~bldOk
          THEN /\ cmds' = cmds \o <<Cmd("build", <<"meson", "setup">>, TRUE),
                                    Cmd("build", <<"meson", "compile">>, FALSE)>>
               /\ fs' = Configure(fs, bld)
               /\ failed' = "build"
               /\ UNCHANGED state
          ELSE /\ cmds' = cmds \o <<Cmd("build", <<"meson", "setup">>, TRUE),
                                    Cmd("build", <<"meson", "compile">>, TRUE)>>
               /\ fs' = Compile(Configure(fs, bld), bld, ToolchainContent(toolchain))
               /\ failed' = "none"
               /\ state' = "Built"
  /\ UNCHANGED <<settings, options, folders, cpp_info, toolchain, pkg, inv, pkgCwd>>

\* The host calls build() on a recipe whose sources are ready.
Build == Ready("SourceReady") /\ build

\* Meson(self).install(): places the built libraries under lib/ of the
\* package folder.
Install(p, t, bld) ==
  p \cup {File(<<"lib">>, f.stem, f.ext) :
            f \in {g \in t : g.dir = bld /\ g.ext \in {"a", "so"}}}

\* Variant of HeaderDst: the headers go under the package name.
HeaderDst_packageName == <<"include", name, "sys">>

\* os.path.join(self.package_folder, "include", "fossil", "sys"), relative
\* to the package folder.
HeaderDst == <<"include", "fossil", "sys">>

\* Variant of copy: a file whose target exists already is written next to it
\* under a new name instead of replacing it.
copy_renameExisting(p, t, ext, src, dst) ==
  p \cup {IF File(dst \o Drop(f.dir, Len(src)), f.stem, f.ext) \in p
           THEN File(dst \o Drop(f.dir, Len(src)), f.stem \o "_1", f.ext)
           ELSE File(dst \o Drop(f.dir, Len(src)), f.stem, f.ext) :
            f \in {g \in Under(t, src) : g.ext = ext}}

\* copy(self, pattern, src, dst): every file below src whose name matches
\* "*.<ext>" is copied below dst, keeping its path relative to src.
copy(p, t, ext, src, dst) ==
  p \cup {File(dst \o Drop(f.dir, Len(src)), f.stem, f.ext) :
            f \in {g \in Under(t, src) : g.ext = ext}}

\* Variant of CopyRaises: matching no file is an error.
CopyRaises_onNoMatch(t, ext, src) == {g \in Under(t, src) : g.ext = ext} = {}

\* copy() returns the list of the files it copied, which package() does not
\* look at; an empty list is not an error.
CopyRaises(t, ext, src) == FALSE

\* Variant of package: the headers are copied although install failed.
package_copyAfterFailedInstall ==
  /\ \E ok \in BOOLEAN :
       LET bld == FolderPath(folders.build)
           cwd == FolderPath(folders[pkgCwd])
       IN /\ cmds' = Append(cmds, Cmd("package", <<"meson", "install">>, ok))
          /\ pkg' = copy(IF ok THEN Install(pkg, fs, bld) ELSE pkg,
                         fs, "h", cwd \o HeaderSrc, HeaderDst)
          /\ IF ok THEN failed' = "none" /\ state' = "Packaged"
                   ELSE failed' = "package" /\ state' = state
  /\ UNCHANGED <<settings, options, folders, cpp_info, toolchain, fs, inv, pkgCwd>>

\* def package(self): meson.install(); copy(self, "*.h", src=..., dst=...)
\* The relative src of copy() is resolved against the working directory of
\* the hook.
package ==
  /\ \E ok \in BOOLEAN :
       LET bld == FolderPath(folders.build)
           cwd == FolderPath(folders[pkgCwd])
       IN IF ~ok
          THEN /\ cmds' = Append(cmds, Cmd("package", <<"meson", "install">>, FALSE))
               /\ failed' = "package"
               /\ UNCHANGED <<pkg, state>>
          ELSE IF CopyRaises(fs, "h", cwd \o HeaderSrc)
          THEN /\ cmds' = Append(cmds, Cmd("package", <<"meson", "install">>, TRUE))
               /\ pkg' = Install(pkg, fs, bld)
               /\ failed' = "package"
               /\ UNCHANGED state
          ELSE /\ cmds' = Append(cmds, Cmd("package", <<"meson", "install">>, TRUE))
               /\ pkg' = copy(Install(pkg, fs, bld), fs, "h", cwd \o HeaderSrc, HeaderDst)
               /\ failed' = "none"
               /\ state' = "Packaged"
  /\ UNCHANGED <<settings, options, folders, cpp_info, toolchain, fs, inv, pkgCwd>>

\* The host calls package() on a recipe that has been built.
Package == Ready("Built") /\ package

\* Variant of package_info: the library name follows the build type.
package_info_debugSuffix(s, o) ==
  [libs |-> <<IF s.build_type = "Debug" THEN "fossil_sys_d" ELSE "fossil_sys">>,
   includedirs |-> <<"include">>]

\* def package_info(self)
package_info(s, o) ==
  [libs |-> <<"fossil_sys">>, includedirs |-> <<"include">>]

PackageInfo ==
  /\ Ready("Packaged")
  /\ cpp_info' = package_info(settings, options)
  /\ state' = "Described"
  /\ UNCHANGED <<settings, options, folders, toolchain, fs, pkg, cmds,
                 failed, inv, pkgCwd>>

\* The host runs the recipe again on a new recipe object; what is on disk stays.
NewInvocation ==
  /\ state = "Described" \/ failed # "none"
  /\ inv < MaxInvocations
  /\ inv' = inv + 1
  /\ options' = default_options
  /\ folders' = NoFolders
  /\ cpp_info' = NoCppInfo
  /\ cmds' = <<>>
  /\ state' = "Created"
  /\ failed' = "none"
  /\ UNCHANGED <<settings, toolchain, fs, pkg, pkgCwd>>

Next ==
  \/ HostSetOption
  \/ Layout
  \/ Generate
  \/ Source
  \/ Build
  \/ Package
  \/ PackageInfo
  \/ NewInvocation

\* Re-entry: the host calls build() again on a recipe that is already built.
BuildAgain == Ready("Built") /\ Len(cmds) < MaxCmds /\ build

\* Re-entry: the host calls package() again on a recipe that is already packaged.
PackageAgain == Ready("Packaged") /\ Len(cmds) < MaxCmds /\ package

NextReentry ==
  \/ Next
  \/ BuildAgain
  \/ PackageAgain

(* ------------------------------------------------------------- properties *)
Range(q) == {q[i] : i \in DOMAIN q}

\* The commands of stage st run so far in this invocation.
StageCmds(st) == {c \in Range(cmds) : c.stage = st}

\* The source folder holds files of its own (the build folder lies inside it).
Populated ==
  Under(fs, FolderPath(folders.source)) \ Under(fs, FolderPath(folders.build)) # {}

\* A step of source(): the only hook that can run in ToolchainGenerated.
SourceStep == Ready("ToolchainGenerated") /\ inv' = inv /\ vars' # vars

\* C1: within one invocation every step leaves the lifecycle state where it
\* is or moves it to the next state of Created -> LayoutResolved ->
\* ToolchainGenerated -> SourceReady -> Built -> Packaged -> Described;
\* no step moves it back or skips a state.
C1_StrictlyForward ==
  [][inv' = inv => (state' = state \/ Index(state') = Index(state) + 1)]_vars

C1_Witness == state = "Described" /\ inv = 1

\* C2: source() invoked on a populated source folder performs no fetch, does
\* not fail and leaves the files unchanged.
C2_SourceIdempotent ==
  [][SourceStep /\ Populated => fs' = fs /\ failed' = "none" /\ cmds' = cmds]_vars

\* C3: every fetch source() performs is the shallow, depth-limited clone;
\* the full clone is never executed.
C3_ShallowFetch ==
  \A c \in StageCmds("source") : c.argv = source_first /\ c.argv # source_second

\* C4: after source() has completed successfully the source folder holds the
\* versioned tree: the build description at its root and the headers under
\* code/logic/fossil/sys.
C4_SourceFolderHoldsTree ==
  state = "SourceReady" =>
    Rebase(ExportsSources(RepoTree), FolderPath(folders.source)) \subseteq fs

C6_NoCommandAfterFailure ==
  /\ \A i \in 1..(Len(cmds) - 1) : cmds[i].ok
  /\ (\E c \in Range(cmds) : ~c.ok) => failed # "none"
  /\ failed # "none" => state # "Described"

C6_FailFast ==
  [][failed # "none" /\ inv' = inv => vars' = vars]_vars /\ []C6_NoCommandAfterFailure

C6_Witness ==
  /\ failed = "build"
  /\ Len(cmds) = 3
  /\ ~cmds[3].ok

\* C7: once generate() has run, options.shared keeps its value for the rest
\* of the invocation, and what build() and package() work with is the link
\* mode the toolchain was generated from.
C7_LinkModeOfOptions ==
  Index(state) >= Index("Built") =>
    /\ ToolchainContent(toolchain).default_library
         = (IF options.shared THEN "shared" ELSE "static")
    /\ File(FolderPath(folders.build), "libfossil_sys",
            IF options.shared THEN "so" ELSE "a") \in fs

C7_FrozenOptions ==
  /\ [][Index(state) >= Index("ToolchainGenerated") /\ inv' = inv
          => options' = options]_vars
  /\ []C7_LinkModeOfOptions

C7_Witness == state = "Packaged" /\ options.shared

\* C8 as stated: the headers the packager copies lie under
\* include/<name>/sys, that is include/fossil_sys/sys.
C8_HeadersUnderPackageName ==
  \A f \in pkg : f.ext = "h" => IsPrefix(<<"include", name, "sys">>, f.dir)

\* C8 amended: the headers the packager copies lie under include/fossil/sys,
\* whatever the package name is.
C8_HeadersUnderFossilSys ==
  \A f \in pkg : f.ext = "h" => IsPrefix(<<"include", "fossil", "sys">>, f.dir)

C8_Witness ==
  /\ state = "Packaged"
  /\ File(<<"include", "fossil", "sys">>, "framework", "h") \in pkg

\* C9: every fetch command names the repository url and the ref "v" followed
\* by the version, "v0.1.3"; this holds of both definitions of source() and
\* of every command that was run.
C9_RefIsVVersion ==
  \A argv \in {source_first, source_second} \cup {c.argv : c \in StageCmds("source")} :
    /\ argv[3] = "--branch"
    /\ argv[4] = "v0.1.3"
    /\ argv[Len(argv)] = url
    /\ version = "0.1.3"

C9_Witness == \E c \in StageCmds("source") : c.ok

\* C10: whatever the settings and the shared option are, package_info()
\* publishes libs = ["fossil_sys"], the package name, and
\* includedirs = ["include"].
C10_ConsumerInfoFixed ==
  state = "Described" =>
    cpp_info = [libs |-> <<"fossil_sys">>, includedirs |-> <<"include">>]
      /\ cpp_info.libs = <<name>>

C10_Witness ==
  /\ state = "Described"
  /\ options.shared
  /\ settings.os = "Windows"
  /\ settings.build_type = "Debug"

\* The positions in cmds of the commands of stage st.
StageRuns(st) == {i \in DOMAIN cmds : cmds[i].stage = st}

\* C11: a successful second run of package() on the same source and build
\* state leaves the package folder exactly as the first run left it, and
\* package() fails only when install fails: the copy step raises nothing,
\* also when no file matches "*.h".
C11_InstallIsTheOnlyFailure ==
  failed = "package" =>
    /\ cmds[Len(cmds)].argv = <<"meson", "install">>
    /\ ~cmds[Len(cmds)].ok

C11_PackageIdempotent ==
  /\ [][state = "Packaged" /\ state' = "Packaged" /\ failed' = "none"
          => pkg' = pkg]_vars
  /\ []C11_InstallIsTheOnlyFailure

C11_Witness ==
  /\ state = "Packaged"
  /\ failed = "none"
  /\ Cardinality(StageRuns("package")) = 2
  /\ {f \in pkg : f.ext = "h"} = {}
  /\ {f \in pkg : f.ext = "a"} # {}

\* The commands a step adds to cmds.
NewCmds == SubSeq(cmds', Len(cmds) + 1, Len(cmds'))

\* The build folder holds a configuration.
Configured == File(FolderPath(folders.build), "build", "ninja") \in fs

\* C12 as stated: build() called on a recipe in state Built, whose build
\* folder was configured in this invocation with the toolchain file that is
\* still in place, skips the configure step.
C12_ConfigureSkipped ==
  [][Ready("Built") /\ Configured /\ inv' = inv
       => \A c \in Range(NewCmds) : c.argv # <<"meson", "setup">>]_vars

\* C12 amended: every call of build() runs the configure step first, also
\* when the build folder already holds a configuration made with the same
\* toolchain file.
C12_ConfigureAlwaysRuns ==
  [][(\E c \in Range(NewCmds) : c.stage = "build")
       => NewCmds[1] \in {Cmd("build", <<"meson", "setup">>, ok) : ok \in BOOLEAN}]_vars

C12_Witness ==
  /\ state = "Built"
  /\ failed = "none"
  /\ Cardinality({i \in StageRuns("build") : cmds[i].argv = <<"meson", "setup">>}) = 2

Mapping(c) == [os |-> c.os, compiler |-> c.compiler, arch |-> c.arch,
               buildtype |-> c.buildtype]

\* C15: shared defaults to false; the toolchain file says "static" when
\* shared is false and "shared" when it is true; with the same settings the
\* two contents differ in that directive only, and a generation that
\* replaces an earlier file leaves the os/arch/compiler mapping as it was.
C15_OnlyLinkModeDiffers ==
  /\ ~default_options.shared
  /\ Index(state) >= Index("ToolchainGenerated") =>
       ToolchainContent(toolchain).default_library
         = (IF options.shared THEN "shared" ELSE "static")
  /\ \A s \in SettingsSpace :
       /\ Mapping(MesonToolchain(s, [shared |-> TRUE]))
            = Mapping(MesonToolchain(s, [shared |-> FALSE]))
       /\ MesonToolchain(s, [shared |-> FALSE]).default_library = "static"
       /\ MesonToolchain(s, [shared |-> TRUE]).default_library = "shared"

C16_LayoutPure ==
  [][state = "Created" /\ state' # "Created"
       => /\ folders' = [source |-> ".", build |-> "builddir"]
          /\ state' = "LayoutResolved"
          /\ UNCHANGED <<settings, options, cpp_info, toolchain, fs, pkg, cmds,
                          failed, inv, pkgCwd>>]_vars

C16_Witness ==
  /\ state = "LayoutResolved"
  /\ inv = 2
  /\ folders = [source |-> ".", build |-> "builddir"]
  /\ Under(fs, <<"builddir">>) = {}

\* C17: a compile command is always directly preceded by a successful
\* configure command of the same build() call; a package() call whose install
\* failed copies nothing, and headers enter the package folder only in a
\* step whose install succeeded; an invocation has at most one failed
\* command, which is the phase the failure belongs to.
C17_ConfigureBeforeBuild ==
  /\ \A i \in DOMAIN cmds :
       cmds[i].argv = <<"meson", "compile">> =>
         i > 1 /\ cmds[i - 1] = Cmd("build", <<"meson", "setup">>, TRUE)
  /\ Cardinality({i \in DOMAIN cmds : ~cmds[i].ok}) <= 1
  /\ failed \in {"build", "package"} =>
       ~cmds[Len(cmds)].ok /\ cmds[Len(cmds)].stage = failed

C17_PhaseOrder ==
  /\ []C17_ConfigureBeforeBuild
  /\ [][pkg' # pkg
          => NewCmds = <<Cmd("package", <<"meson", "install">>, TRUE)>>]_vars

C17_Witness ==
  /\ failed = "package"
  /\ pkgCwd = "source"
  /\ inv = 1
  /\ pkg = {}

Spec == Init /\ [][Next]_vars

\* The recipe driven by a host that also re-enters build() and package().
SpecReentry == Init /\ [][NextReentry]_vars
====
